---- MODULE Spec2Model ----
(***************************************************************************)
(* Library inventory manager (src/Lab-3/lab_3.py): the Book record, the    *)
(* LibraryInventory catalog with its JSON file, and the menu loop of       *)
(* main().                                                                 *)
(*                                                                         *)
(* Text is a sequence of symbols.  A symbol is one character, except that  *)
(* the words "available", "issued" and "lost" and the fixed pieces of      *)
(* Book.__str__ are single symbols.  " " is the only whitespace symbol.    *)
(***************************************************************************)
EXTENDS Naturals, Sequences, FiniteSets

VARIABLES
    books,   \* LibraryInventory.books: the in-memory list of Book records
    file,    \* the content of catalog_path on disk
    pc,      \* "api": the inventory is driven by method calls;
             \* "start", "menu", "done": positions of main()
    last,    \* the last operation: its name, what it returned (or whether it
             \* logged no error), and what its file access did
    out,     \* the list returned by the last search_by_title / display_all
    added    \* history: the books passed to add_book since construction

vars == <<books, file, pc, last, out, added>>

(* ---------------------------- bounds ----------------------------------- *)

\* add_book is not called on a list that already has MaxBooks records
\* (sessions of method calls and of the menu loop)
MaxBooks == 2
\* the catalog file found on disk holds at most MaxFile entries
MaxFile == 2
\* the add-only sessions make at most MaxAdds calls of add_book
MaxAdds == 3

(* ----------------------------- text ------------------------------------ *)

AVAILABLE == <<"available">>
ISSUED == <<"issued">>

RECURSIVE lstrip(_)
lstrip(s) == IF s = <<>> THEN s
             ELSE IF Head(s) = " " THEN lstrip(Tail(s)) ELSE s

RECURSIVE rstrip(_)
rstrip(s) == IF s = <<>> THEN s
             ELSE IF s[Len(s)] = " " THEN rstrip(SubSeq(s, 1, Len(s) - 1)) ELSE s

\* str.strip()
strip(s) == rstrip(lstrip(s))

lower_char(c) == IF c = "W" THEN "w" ELSE IF c = "A" THEN "a" ELSE c

\* str.lower()
lower(s) == [i \in 1..Len(s) |-> lower_char(s[i])]

\* the operator `q in t` on two texts
contains(t, q) ==
    \E i \in 0..Len(t) : i + Len(q) <= Len(t) /\ SubSeq(t, i + 1, i + Len(q)) = q

RECURSIVE filter_seq(_, _)
\* the elements of list s whose index satisfies keep, in the order of s
filter_seq(s, keep) ==
    IF s = <<>> THEN <<>>
    ELSE LET n == Len(s)
             front == filter_seq(SubSeq(s, 1, n - 1), keep)
         IN IF keep[n] THEN Append(front, s[n]) ELSE front

(* ----------------------------- Book ------------------------------------ *)

\* mutant of post_init: the status is kept as given, not coerced
post_init_no_coerce(t, a, i, s) ==
    [title |-> strip(t), author |-> strip(a), isbn |-> strip(i), status |-> s]

\* Book.__post_init__ on the constructor's arguments
post_init(t, a, i, s) ==
    [title  |-> strip(t),
     author |-> strip(a),
     isbn   |-> strip(i),
     status |-> IF s \in {AVAILABLE, ISSUED} THEN s ELSE AVAILABLE]

\* Book(title, author, isbn, status)
Book(t, a, i, s) == post_init(t, a, i, s)

\* Book.__str__
str(b) == b.title \o <<" - ">> \o b.author \o <<" (ISBN: ">> \o b.isbn
          \o <<") [">> \o b.status \o <<"]">>

\* a JSON value under a key of an object: a string, no such key, or a value
\* that is not a string (a number, null, a list, an object)
Str(s) == [k |-> "str", v |-> s]
Absent == [k |-> "absent", v |-> <<>>]
NonStr == [k |-> "other", v |-> <<>>]

\* a JSON array element that is an object with the given keys
Obj(t, a, i, s) == [k |-> "obj", title |-> t, author |-> a, isbn |-> i, status |-> s]
\* a JSON array element that is not an object
NonObj == [k |-> "other", title |-> Absent, author |-> Absent, isbn |-> Absent,
           status |-> Absent]

\* mutant of to_dict: the status key is left out
to_dict_no_status(b) == Obj(Str(b.title), Str(b.author), Str(b.isbn), Absent)

\* Book.to_dict
to_dict(b) == Obj(Str(b.title), Str(b.author), Str(b.isbn), Str(b.status))

\* data.get(key, default)
get(field, default) == IF field.k = "absent" THEN Str(default) ELSE field

\* Book.from_dict raises AttributeError: data has no .get, or a value no .strip
from_dict_raises(data) ==
    \/ data.k # "obj"
    \/ \E f \in {"title", "author", "isbn", "status"} : data[f].k = "other"

\* Book.from_dict when it does not raise
from_dict(data) ==
    Book(strip(get(data.title, <<>>).v),
         strip(get(data.author, <<>>).v),
         strip(get(data.isbn, <<>>).v),
         strip(get(data.status, AVAILABLE).v))

\* Book.is_available
is_available(b) == b.status = AVAILABLE

(* ------------------------ the catalog file ------------------------------ *)

NoFile     == [kind |-> "absent", data |-> <<>>]
\* not JSON at all (also an empty or partly written file)
BadJson    == [kind |-> "malformed", data |-> <<>>]
\* JSON whose root is not an array
NotList    == [kind |-> "notlist", data |-> <<>>]
JsonList(d) == [kind |-> "list", data |-> d]

\* json.dump([b.to_dict() for b in self.books])
dump(bs) == JsonList([i \in 1..Len(bs) |-> to_dict(bs[i])])

(* ------------------------ LibraryInventory ------------------------------ *)

\* io: what the operation's file access did: "none"; for a load "nofile",
\* "read" or "unreadable"; for a save one of SaveOutcomes
Result(op, ok, io) == [op |-> op, ok |-> ok, io |-> io]

\* how load() found the file f
load_io(f, readable) ==
    IF f.kind = "absent" THEN "nofile" ELSE IF readable THEN "read" ELSE "unreadable"

\* what load() leaves in self.books, reading file content f; readable is
\* whether open() and read() succeed
loaded(f, readable) ==
    IF f.kind = "absent" THEN <<>>
    ELSE IF ~readable \/ f.kind # "list" THEN <<>>
    ELSE IF \E i \in 1..Len(f.data) : from_dict_raises(f.data[i]) THEN <<>>
    ELSE [i \in 1..Len(f.data) |-> from_dict(f.data[i])]

\* whether load() ends without logging an error
load_ok(f, readable) ==
    \/ f.kind = "absent"
    \/ /\ readable
       /\ f.kind = "list"
       /\ \A i \in 1..Len(f.data) : ~from_dict_raises(f.data[i])

\* the file after save() of list bs over file f; how is "ok", "unwritable"
\* (mkdir or open fails) or "partial" (the write fails after open truncated)
written(f, bs, how) ==
    IF how = "ok" THEN dump(bs)
    ELSE IF how = "unwritable" THEN f
    ELSE BadJson

SaveOutcomes == {"ok", "unwritable", "partial"}

\* LibraryInventory.search_by_isbn: the index of the first match, 0 for None
search_by_isbn(bs, isbn) ==
    LET s == strip(isbn)
        hits == {i \in 1..Len(bs) : bs[i].isbn = s}
    IN IF hits = {} THEN 0
       ELSE CHOOSE i \in hits : \A j \in hits : i <= j

\* LibraryInventory.add_book raises ValueError
add_book_raises(bs, book) == search_by_isbn(bs, book.isbn) # 0

\* mutant of add_book: the duplicate check is missing
add_book_no_check(bs, book) == Append(bs, book)

\* mutant of add_book: the new record is put first
add_book_at_front(bs, book) ==
    IF add_book_raises(bs, book) THEN bs ELSE <<book>> \o bs

\* LibraryInventory.add_book: the list afterwards
add_book(bs, book) == IF add_book_raises(bs, book) THEN bs ELSE Append(bs, book)

\* mutant of search_by_title: the titles are compared as written
search_by_title_case_sensitive(bs, title_query) ==
    LET q == lower(strip(title_query))
    IN filter_seq(bs, [i \in 1..Len(bs) |-> contains(bs[i].title, q)])

\* LibraryInventory.search_by_title
search_by_title(bs, title_query) ==
    LET q == lower(strip(title_query))
    IN filter_seq(bs, [i \in 1..Len(bs) |-> contains(lower(bs[i].title), q)])

\* LibraryInventory.display_all
display_all(bs) == [i \in 1..Len(bs) |-> str(bs[i])]

\* Book.issue on record n of bs: what it returns and the list afterwards
issue(bs, n) ==
    IF is_available(bs[n])
    THEN [ok |-> TRUE, books |-> [bs EXCEPT ![n].status = ISSUED]]
    ELSE [ok |-> FALSE, books |-> bs]

\* Book.return_book on record n of bs: what it returns and the list afterwards
return_book(bs, n) ==
    IF ~is_available(bs[n])
    THEN [ok |-> TRUE, books |-> [bs EXCEPT ![n].status = AVAILABLE]]
    ELSE [ok |-> FALSE, books |-> bs]

\* LibraryInventory.issue_book_by_isbn
issue_book_by_isbn(bs, isbn) ==
    LET n == search_by_isbn(bs, isbn)
    IN IF n = 0 THEN [ok |-> FALSE, books |-> bs] ELSE issue(bs, n)

\* LibraryInventory.return_book_by_isbn
return_book_by_isbn(bs, isbn) ==
    LET n == search_by_isbn(bs, isbn)
    IN IF n = 0 THEN [ok |-> FALSE, books |-> bs] ELSE return_book(bs, n)

\* prompt_non_empty returns a value: the line typed is not blank (a blank
\* line makes it ask again)
prompt_accepts(line) == strip(line) # <<>>

\* prompt_non_empty: the value returned for an accepted line
prompt_non_empty(line) == strip(line)

(* --------------------------- inputs ------------------------------------- *)

RawTitles  == {<<"W", "a">>, <<" ", "a", " ">>}
RawAuthors == {<<"h", " ">>}
RawIsbns   == {<<"1">>, <<" ", "1">>, <<"2">>}
RawStatus  == {AVAILABLE, ISSUED, <<"lost">>}
Queries    == {<<"w">>, <<"A", " ">>, <<"a", "w">>, <<" ">>}
AskIsbns   == {<<"1">>, <<"2", " ">>, <<"3">>}

\* the Book objects a caller passes to add_book
NewBooks == {Book(t, a, i, s) : t \in RawTitles, a \in RawAuthors,
                                i \in RawIsbns, s \in RawStatus}

\* the Book objects passed to add_book in an add-only session
SessionBooks == {Book(<<"W", "a">>, <<"h">>, i, s) :
                    i \in RawIsbns \cup {<<"3">>}, s \in {AVAILABLE, ISSUED}}

\* the elements a catalog file on disk may hold
FileEntries ==
    { Obj(Str(<<"W", "a">>), Str(<<"h">>), Str(<<"1">>), Str(<<" ", "issued">>)),
      Obj(Str(<<" ", "a">>), Absent, Str(<<"1", " ">>), Absent),
      Obj(Absent, Absent, Str(<<"2">>), Str(<<"lost">>)),
      Obj(Str(<<"W", "a">>), Str(<<"h">>), Str(<<"2">>), NonStr),
      NonObj }

RECURSIVE SeqsUpTo(_, _)
SeqsUpTo(S, n) ==
    IF n = 0 THEN {<<>>}
    ELSE LET shorter == SeqsUpTo(S, n - 1)
         IN shorter \cup {Append(s, x) : s \in shorter, x \in S}

InitFiles == {NoFile, BadJson, NotList}
             \cup {JsonList(d) : d \in SeqsUpTo(FileEntries, MaxFile)}

(* ------------------ method calls on an inventory ------------------------ *)

\* LibraryInventory(catalog_path), then either method calls or main()
Init ==
    /\ books = <<>>
    /\ file \in InitFiles
    /\ pc \in {"api", "start"}
    /\ last = Result("init", TRUE, "none")
    /\ out = <<>>
    /\ added = <<>>

call_load ==
    /\ pc = "api"
    /\ \E readable \in BOOLEAN :
          /\ books' = loaded(file, readable)
          /\ last' = Result("load", load_ok(file, readable), load_io(file, readable))
    /\ out' = <<>>
    /\ UNCHANGED <<file, pc>>

call_save ==
    /\ pc = "api"
    /\ \E how \in SaveOutcomes :
          /\ file' = written(file, books, how)
          /\ last' = Result("save", how = "ok", how)
    /\ out' = <<>>
    /\ UNCHANGED <<books, pc>>

\* add_book(book): last.ok is FALSE when ValueError is raised
call_add_book(book) ==
    /\ pc = "api"
    /\ books' = add_book(books, book)
    /\ last' = Result("add_book", ~add_book_raises(books, book), "none")
    /\ out' = <<>>
    /\ UNCHANGED <<file, pc>>

call_issue(isbn) ==
    /\ pc = "api"
    /\ books' = issue_book_by_isbn(books, isbn).books
    /\ last' = Result("issue", issue_book_by_isbn(books, isbn).ok, "none")
    /\ out' = <<>>
    /\ UNCHANGED <<file, pc>>

call_return(isbn) ==
    /\ pc = "api"
    /\ books' = return_book_by_isbn(books, isbn).books
    /\ last' = Result("return", return_book_by_isbn(books, isbn).ok, "none")
    /\ out' = <<>>
    /\ UNCHANGED <<file, pc>>

call_search_by_title(q) ==
    /\ pc = "api"
    /\ out' = search_by_title(books, q)
    /\ last' = Result("search_by_title", TRUE, "none")
    /\ UNCHANGED <<books, file, pc>>

call_display_all ==
    /\ pc = "api"
    /\ out' = display_all(books)
    /\ last' = Result("display_all", TRUE, "none")
    /\ UNCHANGED <<books, file, pc>>

(* ----------------------------- main() ----------------------------------- *)

\* inventory.load() before the loop
main_load ==
    /\ pc = "start"
    /\ \E readable \in BOOLEAN :
          /\ books' = loaded(file, readable)
          /\ last' = Result("main_load", load_ok(file, readable), load_io(file, readable))
    /\ pc' = "menu"
    /\ out' = <<>>
    /\ UNCHANGED file

\* choice "1": last.ok is FALSE when "Error: ..." is printed
menu_add(t, a, i) ==
    /\ pc = "menu"
    /\ prompt_accepts(t) /\ prompt_accepts(a) /\ prompt_accepts(i)
    /\ LET book == Book(prompt_non_empty(t), prompt_non_empty(a),
                        prompt_non_empty(i), AVAILABLE)
       IN IF add_book_raises(books, book)
          THEN /\ books' = add_book(books, book)
               /\ file' = file
               /\ last' = Result("menu_add", FALSE, "none")
          ELSE /\ books' = add_book(books, book)
               /\ \E how \in SaveOutcomes :
                     /\ file' = written(file, books', how)
                     /\ last' = Result("menu_add", TRUE, how)
    /\ out' = <<>>
    /\ UNCHANGED pc

\* choice "2": last.ok is FALSE when "Issue failed." is printed
menu_issue(i) ==
    /\ pc = "menu"
    /\ prompt_accepts(i)
    /\ LET r == issue_book_by_isbn(books, prompt_non_empty(i))
       IN /\ books' = r.books
          /\ \E how \in SaveOutcomes :
                /\ file' = written(file, books', how)
                /\ last' = Result("menu_issue", r.ok, how)
    /\ out' = <<>>
    /\ UNCHANGED pc

\* mutant of menu_return: the save after the return is missing
menu_return_no_save(i) ==
    /\ pc = "menu"
    /\ prompt_accepts(i)
    /\ LET r == return_book_by_isbn(books, prompt_non_empty(i))
       IN /\ books' = r.books
          /\ last' = Result("menu_return", r.ok, "none")
    /\ out' = <<>>
    /\ UNCHANGED <<file, pc>>

\* choice "3": last.ok is FALSE when "Return failed." is printed
menu_return(i) ==
    /\ pc = "menu"
    /\ prompt_accepts(i)
    /\ LET r == return_book_by_isbn(books, prompt_non_empty(i))
       IN /\ books' = r.books
          /\ \E how \in SaveOutcomes :
                /\ file' = written(file, books', how)
                /\ last' = Result("menu_return", r.ok, how)
    /\ out' = <<>>
    /\ UNCHANGED pc

\* choice "4"
menu_view ==
    /\ pc = "menu"
    /\ out' = display_all(books)
    /\ last' = Result("menu_view", out' # <<>>, "none")
    /\ UNCHANGED <<books, file, pc>>

\* choice "5", sub-choice "1": last.ok is FALSE when "No matches." is printed
menu_search_title(q) ==
    /\ pc = "menu"
    /\ prompt_accepts(q)
    /\ out' = search_by_title(books, prompt_non_empty(q))
    /\ last' = Result("menu_search_title", out' # <<>>, "none")
    /\ UNCHANGED <<books, file, pc>>

\* choice "5", sub-choice "2": last.ok is FALSE when "No such ISBN." is printed
menu_search_isbn(q) ==
    /\ pc = "menu"
    /\ prompt_accepts(q)
    /\ LET n == search_by_isbn(books, prompt_non_empty(q))
       IN /\ out' = IF n = 0 THEN <<>> ELSE <<books[n]>>
          /\ last' = Result("menu_search_isbn", n # 0, "none")
    /\ UNCHANGED <<books, file, pc>>

\* any other choice, or any other sub-choice of "5"
menu_invalid ==
    /\ pc = "menu"
    /\ last' = Result("menu_invalid", FALSE, "none")
    /\ out' = <<>>
    /\ UNCHANGED <<books, file, pc>>

\* choice "6"
menu_exit ==
    /\ pc = "menu"
    /\ \E how \in SaveOutcomes :
          /\ file' = written(file, books, how)
          /\ last' = Result("menu_exit", TRUE, how)
    /\ pc' = "done"
    /\ out' = <<>>
    /\ UNCHANGED books

TypedIsbns == AskIsbns \cup {<<" ">>}

Next ==
    \/ call_load /\ UNCHANGED added
    \/ call_save /\ UNCHANGED added
    \/ /\ Len(books) < MaxBooks
       /\ \E b \in NewBooks : call_add_book(b) /\ UNCHANGED added
    \/ \E i \in AskIsbns : call_issue(i) /\ UNCHANGED added
    \/ \E i \in AskIsbns : call_return(i) /\ UNCHANGED added
    \/ \E q \in Queries : call_search_by_title(q) /\ UNCHANGED added
    \/ call_display_all /\ UNCHANGED added
    \/ main_load /\ UNCHANGED added
    \/ /\ Len(books) < MaxBooks
       /\ \E t \in RawTitles, a \in RawAuthors, i \in RawIsbns :
             menu_add(t, a, i) /\ UNCHANGED added
    \/ \E i \in TypedIsbns : menu_issue(i) /\ UNCHANGED added
    \/ \E i \in TypedIsbns : menu_return(i) /\ UNCHANGED added
    \/ menu_view /\ UNCHANGED added
    \/ \E q \in Queries : menu_search_title(q) /\ UNCHANGED added
    \/ \E i \in TypedIsbns : menu_search_isbn(i) /\ UNCHANGED added
    \/ menu_invalid /\ UNCHANGED added
    \/ menu_exit /\ UNCHANGED added

Spec == Init /\ [][Next]_vars

(* --------------------- sessions that only add --------------------------- *)

InitAdds ==
    /\ books = <<>>
    /\ file = NoFile
    /\ pc = "api"
    /\ last = Result("init", TRUE, "none")
    /\ out = <<>>
    /\ added = <<>>

NextAdds ==
    \/ /\ Len(added) < MaxAdds
       /\ \E b \in SessionBooks :
             /\ call_add_book(b)
             /\ added' = Append(added, b)
    \/ /\ call_display_all
       /\ UNCHANGED added

SpecAdds == InitAdds /\ [][NextAdds]_vars

(* ============================ properties ================================ *)

\* list bs holds a record whose ISBN is x
HasIsbn(bs, x) == \E k \in 1..Len(bs) : bs[k].isbn = x

\* the ISBNs of list bs are pairwise distinct
DistinctIsbns(bs) ==
    \A i, j \in 1..Len(bs) : i # j => bs[i].isbn # bs[j].isbn

\* two symbols are the same letter, case ignored
SameLetter(a, b) ==
    \/ a = b
    \/ {a, b} = {"w", "W"}
    \/ {a, b} = {"a", "A"}

\* text t contains text q as a substring, case ignored
ContainsIgnoringCase(t, q) ==
    \E i \in 0..Len(t) :
        /\ i + Len(q) <= Len(t)
        /\ \A j \in 1..Len(q) : SameLetter(t[i + j], q[j])

\* the records of bs whose title contains q case-insensitively, in order
TitleMatches(bs, q) ==
    filter_seq(bs, [i \in 1..Len(bs) |-> ContainsIgnoringCase(bs[i].title, q)])

\* lists a and b differ at most in the status of record n
SameButStatus(a, b, n) ==
    /\ Len(a) = Len(b)
    /\ \A k \in 1..Len(a) :
          /\ a[k].title = b[k].title
          /\ a[k].author = b[k].author
          /\ a[k].isbn = b[k].isbn
          /\ k # n => a[k].status = b[k].status

(* ---- C1 ---- *)
\* C1: in every reachable state of a LibraryInventory (after any sequence of
\* load, add_book, issue, return and save, load reading any array-rooted
\* file) no two records of the catalog have the same ISBN.
C1_UniqueIsbn == DistinctIsbns(books)

(* ---- C2 ---- *)
\* C2: add_book(book) on a catalog that already holds a record with book's
\* (trimmed) ISBN raises the duplicate error and leaves the catalog unchanged
\* (same records, order, statuses); in the menu loop no save is performed
\* (the file is untouched) and the program stays in the loop.
C2_DuplicateAddRejected ==
    [][ /\ last'.op = "add_book" => \A b \in NewBooks :
              (HasIsbn(books, b.isbn) /\ call_add_book(b))
                  => (last'.ok = FALSE /\ books' = books /\ file' = file)
        /\ last'.op = "menu_add" =>
           \A t \in RawTitles, a \in RawAuthors, i \in RawIsbns :
              (HasIsbn(books, strip(i)) /\ menu_add(t, a, i))
                  => /\ last'.ok = FALSE
                     /\ books' = books
                     /\ last'.io = "none"
                     /\ file' = file
                     /\ pc' = "menu" ]_vars

\* C2 witness: the menu loop has just rejected an Add on a non-empty catalog
C2_Witness ==
    /\ last.op = "menu_add"
    /\ last.ok = FALSE
    /\ pc = "menu"
    /\ Len(books) >= 1

(* ---- C3 ---- *)
\* C3: save() followed by load() on the same path reproduces the catalog:
\* when a save that wrote the file is followed by a load that could read it,
\* the loaded list equals the saved list (same records, order, statuses),
\* the empty list included.
C3_SaveLoadRoundTrip ==
    [][ (last.op = "save" /\ last.io = "ok"
            /\ last'.op = "load" /\ last'.io # "unreadable")
        => (books' = books /\ last'.ok /\ last'.io = "read") ]_vars

\* C3 witness: a load has just read back a saved two-record list that holds
\* an issued record
C3_Witness ==
    /\ last.op = "load"
    /\ last.io = "read"
    /\ file = dump(books)
    /\ Len(books) >= 2
    /\ \E k \in 1..Len(books) : books[k].status = ISSUED

(* ---- C4 ---- *)
\* the text a file entry holds under a key, its default when the key is
\* missing or its value is no string
FieldOrDefault(field, default) ==
    IF field.k = "str" THEN strip(field.v) ELSE default

\* the record C4 expects for a file entry
RecordExpected(entry) ==
    [title  |-> FieldOrDefault(entry.title, <<>>),
     author |-> FieldOrDefault(entry.author, <<>>),
     isbn   |-> FieldOrDefault(entry.isbn, <<>>),
     status |-> IF FieldOrDefault(entry.status, AVAILABLE) = ISSUED
                THEN ISSUED ELSE AVAILABLE]

\* C4: load() of an array-rooted file yields one record per entry, in file
\* order, each missing or invalid field replaced by its default; a malformed
\* entry does not make the other entries disappear.
C4_EveryEntryLoaded ==
    [][ (last'.op = "load" /\ last'.io = "read" /\ file.kind = "list")
        => books' = [k \in 1..Len(file.data) |-> RecordExpected(file.data[k])]
      ]_vars

(* ---- C5 ---- *)
\* C5: for a record present in the catalog with status available, issue(isbn)
\* succeeds and sets it to issued, and a following issue(isbn) fails and
\* leaves it issued; for a record with status issued, return(isbn) succeeds
\* and restores available, and return on an available record fails.
C5_IssueReturnToggle ==
    [][ /\ last'.op = "issue" => \A i \in AskIsbns, k \in 1..Len(books) :
              (call_issue(i) /\ books[k].isbn = strip(i))
                  => /\ last'.ok = (books[k].status = AVAILABLE)
                     /\ books'[k].status = ISSUED
        /\ last'.op = "return" => \A i \in AskIsbns, k \in 1..Len(books) :
              (call_return(i) /\ books[k].isbn = strip(i))
                  => /\ last'.ok = (books[k].status = ISSUED)
                     /\ books'[k].status = AVAILABLE ]_vars

(* ---- C6 ---- *)
\* C6: in the menu loop, after a successful Add, Issue or Return and after
\* Exit, a save was performed, and unless the write failed the file holds
\* the serialization of the current in-memory list.
C6_PersistedAfterMutation ==
    ( \/ last.op \in {"menu_add", "menu_issue", "menu_return"} /\ last.ok
      \/ last.op = "menu_exit" )
    => /\ last.io \in SaveOutcomes
       /\ last.io = "ok" => file = dump(books)

\* C6 witness: back at the menu after a successful Return that was saved
C6_Witness ==
    /\ pc = "menu"
    /\ last.op = "menu_return"
    /\ last.ok
    /\ last.io = "ok"
    /\ file = dump(books)
    /\ Len(books) >= 1

C8_AddsKeepInsertionOrder ==
    DistinctIsbns(added)
    => /\ Len(books) = Len(added)
       /\ books = added
       /\ last.op = "add_book" => last.ok
       /\ last.op = "display_all" => out = [k \in 1..Len(added) |-> str(added[k])]

\* C8 witness: three books with distinct ISBNs were added and then displayed
C8_Witness ==
    /\ Len(added) = 3
    /\ DistinctIsbns(added)
    /\ last.op = "display_all"
    /\ Len(out) = 3

(* ---- C9 ---- *)
\* C9 as stated: search_by_title(query) returns exactly the records whose
\* title contains the query as a case-insensitive substring, in catalog
\* order, and does not modify the catalog.
C9_MatchesQueryAsGiven ==
    [][ last'.op = "search_by_title" => \A q \in Queries :
           call_search_by_title(q)
              => (out' = TitleMatches(books, q) /\ books' = books) ]_vars

\* C9 amended: search_by_title(query) returns exactly the records whose
\* title contains the query stripped of leading and trailing whitespace as a
\* case-insensitive substring, in catalog order, and does not modify the
\* catalog or the file; no match gives the empty list.
C9_MatchesTrimmedQuery ==
    [][ last'.op = "search_by_title" => \A q \in Queries :
           call_search_by_title(q)
              => /\ out' = TitleMatches(books, strip(q))
                 /\ books' = books
                 /\ file' = file ]_vars

\* C9 witness: a search matched "Wa" ignoring case and left another record out
C9_Witness ==
    /\ last.op = "search_by_title"
    /\ Len(out) >= 1
    /\ Len(out) < Len(books)
    /\ \A k \in 1..Len(out) : out[k].title = <<"W", "a">>

(* ---- C10 ---- *)
\* C10: an issue/return that reports failure changes nothing in the
\* in-memory catalog; a successful one changes only the status of the
\* matched record; in the menu loop a failed Issue or Return also leaves the
\* catalog file's content unchanged.
C10_FailedIssueReturnIsNoOp ==
    [][ /\ last'.op \in {"issue", "return"} => \A i \in AskIsbns :
              (call_issue(i) \/ call_return(i))
                 => /\ ~last'.ok => books' = books
                    /\ last'.ok => SameButStatus(books, books',
                                                 search_by_isbn(books, i))
                    /\ file' = file
        /\ last'.op \in {"menu_issue", "menu_return"} => \A i \in TypedIsbns :
              (menu_issue(i) \/ menu_return(i))
                 => /\ ~last'.ok => (books' = books /\ file' = file)
                    /\ last'.ok => SameButStatus(books, books',
                                                 search_by_isbn(books, i)) ]_vars

====
